---- MODULE Spec2Model ----
(***************************************************************************)
(* Model of static/js/main.js: the browser-side upload -> process ->       *)
(* display workflow of the document dashboard.                             *)
(*                                                                         *)
(* The page is single threaded: every DOM event handler, promise callback  *)
(* chain and timer callback runs to completion, so each is one action.     *)
(* The server and the browser's networking are the environment: a pending  *)
(* fetch may resolve with any body of the endpoint's response set or       *)
(* reject, in any order relative to the other pending work.                *)
(*                                                                         *)
(* `dom` holds the element properties the script reads and writes, keyed   *)
(* by element id (style.display for sections and buttons, textContent /    *)
(* innerHTML for fields, value for inputs).  Numbers that are fractions in *)
(* the script (confidence in [0,1]) are kept in thousandths.               *)
(*                                                                         *)
(* `page` holds the elements of the other pages the script serves: the     *)
(* stats cards, routing summary and type chart of the analytics and        *)
(* dashboard pages, the pipeline demo, and the chat widget.  Each part has *)
(* its own behaviour specification: Spec and SpecFair (upload workflow),   *)
(* SpecReclassify, SpecResults (result display), SpecDashboard, SpecChat.  *)
(***************************************************************************)
EXTENDS Integers, Sequences, FiniteSets, TLC

VARIABLES
    currentDocumentId,  \* main.js:2  the stored document reference
    dom,                \* element properties touched by the script
    alerts,             \* alert banners in .container, newest first
    pendingFetches,     \* fetch() promises not yet settled
    pendingTimers,      \* setTimeout callbacks not yet run
    attempts,           \* observation: one record per accepted file
    nReclassify,        \* observation: reclassify requests issued so far
    resetSeen,          \* observation: resetUploadForm has run
    lastEvent,          \* observation: the handler that ran last
    typeChart,          \* main.js:3  the doughnut chart of the analytics page
    charts,             \* Chart instances constructed so far
    page,               \* elements of the dashboard, analytics and chat UI
    nCalls              \* observation: loader calls and chat posts so far

vars == <<currentDocumentId, dom, alerts, pendingFetches, pendingTimers,
          attempts, nReclassify, resetSeen, lastEvent,
          typeChart, charts, page, nCalls>>

\* what the upload workflow leaves alone
dashboardVars == <<typeChart, charts, page, nCalls>>

\* what the dashboard, analytics and chat code leaves alone
workflowVars == <<currentDocumentId, dom, pendingTimers, attempts, nReclassify,
                  resetSeen>>

----------------------------------------------------------------------------
(* Bounds of the exploration *)

\* files accepted for upload in a behaviour of Spec
MaxAttempts == 2

\* files accepted for upload in a behaviour of SpecReclassify
MaxReclassifyAttempts == 1

\* reclassify requests issued in a behaviour of SpecReclassify
MaxReclassify == 1

\* files accepted for upload in a behaviour of SpecFair
MaxFairAttempts == 1

\* loader calls in a behaviour of SpecDashboard
MaxCalls == 2

\* chat messages posted in a behaviour of SpecChat
MaxPosts == 2

----------------------------------------------------------------------------
(* JavaScript values *)

NULL == "<null>"

UNDEFINED == "<undefined>"

\* ToBoolean on the string-or-missing values the script tests with ! and ||
Truthy(v) == v \notin {NULL, UNDEFINED, ""}

\* obj.field, undefined when the property is missing
Get(obj, field) == IF field \in DOMAIN obj THEN obj[field] ELSE UNDEFINED

\* obj.field || fallback
GetOr(obj, field, fallback) ==
    IF Truthy(Get(obj, field)) THEN obj[field] ELSE fallback

----------------------------------------------------------------------------
(* Inputs: files the user can pick, bodies the server can answer with *)

MaxFileSize == 16 * 1024 * 1024

allowedTypes ==
    { "application/pdf",
      "application/vnd.openxmlformats-officedocument.wordprocessingml.document",
      "image/jpeg", "image/jpg", "image/png" }

Files ==
    { [type |-> "application/pdf", size |-> 1],
      [type |-> "image/png", size |-> MaxFileSize],
      [type |-> "image/jpg", size |-> MaxFileSize + 1],
      [type |-> "text/plain", size |-> 1],
      [type |-> "", size |-> MaxFileSize + 1] }

\* e.target.files / e.dataTransfer.files: empty, or led by one file
FileLists == {<< >>} \cup { <<f>> : f \in Files }

\* the identifier the server issues for the att-th upload it stores: an
\* opaque string, distinct per upload
DocumentIdOf(att) == "d" \o ToString(att)

\* bodies of POST /upload for the att-th upload
UploadResponses(att) ==
    { [success |-> TRUE, document_id |-> DocumentIdOf(att)],
      [success |-> TRUE, document_id |-> ""],
      [success |-> TRUE],
      [success |-> FALSE, error |-> "No file selected"],
      [success |-> FALSE] }

\* bodies of POST /process/:id
ProcessResponses ==
    { [success |-> TRUE,
       classification |-> [type |-> "Invoice", confidence |-> 850],
       routing |-> [department |-> "Accounting"],
       extracted_text |-> "INVOICE #1"],
      [success |-> TRUE],
      [success |-> FALSE, error |-> "OCR failed"],
      [success |-> FALSE] }

\* bodies of POST /reclassify/:id
ReclassifyResponses ==
    { [success |-> TRUE,
       document |-> [document_type |-> "Resume"],
       routing |-> [department |-> "Human Resources"]],
      [success |-> FALSE, error |-> "Invalid document type"] }

\* error.message of a rejected fetch() or of response.json() on a bad body
RejectionMessages == { "Failed to fetch" }

\* options of the manualClassification select
ManualTypes == { "", "Resume" }

----------------------------------------------------------------------------
(* DOM helpers: each maps the element properties before the call to the    *)
(* element properties after it                                             *)

Visible(display) == display # "none"

hideAllSections(d) ==
    [d EXCEPT !.processingSection = "none",
              !.resultsSection = "none",
              !.errorSection = "none"]

showError(d, message) ==
    [hideAllSections(d) EXCEPT !.errorSection = "block",
                               !.errorMessage = message]

updateProgress(d, percent, message) ==
    [d EXCEPT !.progressBar = percent,
              !.processingStatus = message,
              !.progressContainer = "block"]

\* getConfidenceBadgeClass comparing the rounded percentage, as
\* getConfidenceColor does
getConfidenceBadgeClass_ofPercent(confidence) ==
    IF (confidence + 5) \div 10 >= 80 THEN "success"
    ELSE IF (confidence + 5) \div 10 >= 60 THEN "warning"
    ELSE "danger"

getConfidenceBadgeClass(confidence) ==
    IF confidence >= 800 THEN "success"
    ELSE IF confidence >= 600 THEN "warning"
    ELSE "danger"

\* Math.round(confidence * 100) for a confidence given in thousandths
RoundPercent(confidence) == (confidence + 5) \div 10

\* showResults writing the department as it came, without a fallback
showResults_rawDepartment(d, data) ==
    LET hasClassification == "classification" \in DOMAIN data
        hasRouting == "routing" \in DOMAIN data
        docType == IF hasClassification
                   THEN GetOr(data.classification, "type", "Not classified")
                   ELSE "Not classified"
        confidence == IF hasClassification
                         /\ "confidence" \in DOMAIN data.classification
                      THEN data.classification.confidence
                      ELSE 0
        routedTo == IF hasRouting
                    THEN Get(data.routing, "department")
                    ELSE UNDEFINED
    IN  [hideAllSections(d) EXCEPT
            !.resultsSection = "block",
            !.documentType = docType,
            !.confidence = [badge |-> getConfidenceBadgeClass(confidence),
                            text |-> ToString(RoundPercent(confidence)) \o "%"],
            !.routedTo = routedTo,
            !.extractedText = GetOr(data, "extracted_text", "[No text extracted]"),
            !.manualClassification = "",
            !.reclassifyBtn = "none"]

showResults(d, data) ==
    LET hasClassification == "classification" \in DOMAIN data
        hasRouting == "routing" \in DOMAIN data
        docType == IF hasClassification
                   THEN GetOr(data.classification, "type", "Not classified")
                   ELSE "Not classified"
        confidence == IF hasClassification
                         /\ "confidence" \in DOMAIN data.classification
                      THEN data.classification.confidence
                      ELSE 0
        routedTo == IF hasRouting
                    THEN GetOr(data.routing, "department", "Unassigned")
                    ELSE "Unassigned"
    IN  [hideAllSections(d) EXCEPT
            !.resultsSection = "block",
            !.documentType = docType,
            !.confidence = [badge |-> getConfidenceBadgeClass(confidence),
                            text |-> ToString(RoundPercent(confidence)) \o "%"],
            !.routedTo = routedTo,
            !.extractedText = GetOr(data, "extracted_text", "[No text extracted]"),
            !.manualClassification = "",
            !.reclassifyBtn = "none"]

showAlert(banners, message, type) ==
    <<[message |-> message, type |-> type]>> \o banners

----------------------------------------------------------------------------
(* Initial state: the page as loaded, before any event.  The markup shows *)
(* the upload section (no inline display) and hides the processing,        *)
(* results and error sections and the reclassify button.                   *)

InitialDom ==
    [ uploadSection |-> "",
      processingSection |-> "none",
      resultsSection |-> "none",
      errorSection |-> "none",
      progressContainer |-> "",
      reclassifyBtn |-> "none",
      progressBar |-> 0,
      processingStatus |-> "",
      errorMessage |-> "",
      documentType |-> "",
      confidence |-> [badge |-> "", text |-> ""],
      routedTo |-> "",
      extractedText |-> "",
      fileInput |-> "",
      manualClassification |-> "" ]

InitialPage(canvas) ==
    [ typeChartCanvas |-> canvas,
      totalDocs |-> 0,
      completedDocs |-> 0,
      processingDocs |-> 0,
      errorDocs |-> 0,
      routingSummary |-> [placeholder |-> FALSE, rows |-> << >>],
      pipelineDemo |-> "none",
      pipelineLoading |-> "none",
      pipelineStages |-> << >>,
      sampleResults |-> << >>,
      chatInput |-> << >>,
      chatMessages |-> << >> ]

InitOn(maxAttempts, canvas) ==
    /\ currentDocumentId = NULL
    /\ dom = InitialDom
    /\ alerts = << >>
    /\ pendingFetches = {}
    /\ pendingTimers = {}
    /\ attempts = [a \in 1..maxAttempts |->
                        [stage |-> "unused", afterReset |-> FALSE]]
    /\ nReclassify = 0
    /\ resetSeen = FALSE
    /\ lastEvent = [op |-> "load", issued |-> {}]
    /\ typeChart = NULL
    /\ charts = << >>
    /\ page = InitialPage(canvas)
    /\ nCalls = 0

InitWith(maxAttempts) == InitOn(maxAttempts, TRUE)

Init == InitWith(MaxAttempts)

InitReclassify == InitWith(MaxReclassifyAttempts)

----------------------------------------------------------------------------
(* Upload workflow *)

\* history kept per accepted file, outside the script's own state
Started == {a \in DOMAIN attempts : attempts[a].stage # "unused"}

\* what the handler that just ran was, and the requests it left pending
Observed(event) ==
    lastEvent' = event @@ [issued |-> pendingFetches' \ pendingFetches]

NoteAttempt(att, stage) ==
    attempts' = [attempts EXCEPT ![att].stage = stage]

\* processDocument without the test of documentId
processDocument_noIdGuard(d, fetches, documentId, att) ==
    /\ dom' = updateProgress(d, 50, "Extracting text using OCR...")
    /\ pendingFetches' = fetches \cup
           {[chain |-> "process", url |-> "/process/" \o documentId,
             newType |-> "", att |-> att]}

processDocument(d, fetches, documentId, att) ==
    IF ~Truthy(documentId)
    THEN /\ dom' = showError(d, "No document ID provided")
         /\ pendingFetches' = fetches
    ELSE \* `event` is window.event, undefined inside a promise callback
         /\ dom' = updateProgress(d, 50, "Extracting text using OCR...")
         /\ pendingFetches' = fetches \cup
                {[chain |-> "process", url |-> "/process/" \o documentId,
                  newType |-> "", att |-> att]}

uploadFile(d, file) ==
    /\ Cardinality(Started) < Cardinality(DOMAIN attempts)
    /\ dom' = updateProgress(
                 [hideAllSections(d) EXCEPT !.processingSection = "block"],
                 10, "Uploading file...")
    /\ pendingFetches' = pendingFetches \cup
            {[chain |-> "upload", url |-> "/upload", newType |-> "",
              att |-> Cardinality(Started) + 1]}
    /\ attempts' = [attempts EXCEPT ![Cardinality(Started) + 1] =
                        [stage |-> "uploading", afterReset |-> resetSeen]]
    /\ UNCHANGED <<currentDocumentId, alerts, pendingTimers, nReclassify,
                   resetSeen, dashboardVars>>

rejectFile(d, message) ==
    /\ dom' = showError(d, message)
    /\ UNCHANGED <<currentDocumentId, alerts, pendingFetches, pendingTimers,
                   attempts, nReclassify, resetSeen, dashboardVars>>

\* handleFile without the MIME type check
handleFile_noTypeCheck(d, file) ==
    IF file.size > MaxFileSize
    THEN rejectFile(d, "File too large. Maximum size is 16MB.")
    ELSE uploadFile(d, file)

\* handleFile with the size limit tested by >= instead of >
handleFile_sizeInclusive(d, file) ==
    IF file.type \notin allowedTypes
    THEN rejectFile(d, "Invalid file type. Please upload PDF, DOCX, JPG, or PNG files.")
    ELSE IF file.size >= MaxFileSize
    THEN rejectFile(d, "File too large. Maximum size is 16MB.")
    ELSE uploadFile(d, file)

handleFile(d, file) ==
    IF file.type \notin allowedTypes
    THEN rejectFile(d, "Invalid file type. Please upload PDF, DOCX, JPG, or PNG files.")
    ELSE IF file.size > MaxFileSize
    THEN rejectFile(d, "File too large. Maximum size is 16MB.")
    ELSE uploadFile(d, file)

\* change event of the file input: the browser has already set its value
HandleFileSelect ==
    \E files \in FileLists :
        /\ IF Len(files) > 0
           THEN handleFile([dom EXCEPT !.fileInput = "C:/fakepath/file"], files[1])
           ELSE /\ dom' = [dom EXCEPT !.fileInput = ""]
                /\ UNCHANGED <<currentDocumentId, alerts, pendingFetches,
                               pendingTimers, attempts, nReclassify, resetSeen, dashboardVars>>
        /\ Observed([op |-> "handleFileSelect", files |-> files])

HandleDrop ==
    \E files \in FileLists :
        /\ IF Len(files) > 0
           THEN handleFile(dom, files[1])
           ELSE UNCHANGED <<currentDocumentId, dom, alerts, pendingFetches,
                            pendingTimers, attempts, nReclassify, resetSeen, dashboardVars>>
        /\ Observed([op |-> "handleDrop", files |-> files])

\* .then(data => ...) of the upload chain, with the .catch its throw reaches
\* uploadThen storing data.document_id before it looks at data.success
uploadThen_storesFirst(d, fetches, data, att) ==
    IF data.success
    THEN /\ currentDocumentId' = Get(data, "document_id")
         /\ processDocument(
                updateProgress(d, 30,
                    "File uploaded successfully. Starting processing..."),
                fetches, Get(data, "document_id"), att)
    ELSE /\ dom' = showError(d, "Upload failed: "
                                  \o GetOr(data, "error", "Upload failed"))
         /\ pendingFetches' = fetches
         /\ currentDocumentId' = Get(data, "document_id")

\* uploadThen handing processDocument the reference stored before the response
uploadThen_staleId(d, fetches, data, att) ==
    IF data.success
    THEN /\ currentDocumentId' = Get(data, "document_id")
         /\ processDocument(
                updateProgress(d, 30,
                    "File uploaded successfully. Starting processing..."),
                fetches, currentDocumentId, att)
    ELSE /\ dom' = showError(d, "Upload failed: "
                                  \o GetOr(data, "error", "Upload failed"))
         /\ pendingFetches' = fetches
         /\ UNCHANGED currentDocumentId

\* uploadThen sending the file again after a failed upload
uploadThen_retries(d, fetches, data, att) ==
    IF data.success
    THEN /\ currentDocumentId' = Get(data, "document_id")
         /\ processDocument(
                updateProgress(d, 30,
                    "File uploaded successfully. Starting processing..."),
                fetches, Get(data, "document_id"), att)
    ELSE /\ dom' = showError(d, "Upload failed: "
                                  \o GetOr(data, "error", "Upload failed"))
         /\ pendingFetches' = fetches \cup
                {[chain |-> "upload", url |-> "/upload", newType |-> "",
                  att |-> att]}
         /\ UNCHANGED currentDocumentId

uploadThen(d, fetches, data, att) ==
    IF data.success
    THEN /\ currentDocumentId' = Get(data, "document_id")
         /\ processDocument(
                updateProgress(d, 30,
                    "File uploaded successfully. Starting processing..."),
                fetches, Get(data, "document_id"), att)
    ELSE /\ dom' = showError(d, "Upload failed: "
                                  \o GetOr(data, "error", "Upload failed"))
         /\ pendingFetches' = fetches
         /\ UNCHANGED currentDocumentId

UploadResolved ==
    \E req \in pendingFetches :
      \E data \in UploadResponses(req.att) :
        /\ req.chain = "upload"
        /\ uploadThen(dom, pendingFetches \ {req}, data, req.att)
        /\ NoteAttempt(req.att,
                IF data.success /\ Truthy(Get(data, "document_id"))
                THEN "processing" ELSE "error")
        /\ UNCHANGED <<alerts, pendingTimers, nReclassify, resetSeen, dashboardVars>>
        /\ Observed([op |-> "uploadResolved", att |-> req.att, data |-> data])

\* .catch(error => ...) of the upload chain after fetch() or json() rejects
uploadCatch(d, message) == showError(d, "Upload failed: " \o message)

UploadRejected ==
    \E req \in pendingFetches, message \in RejectionMessages :
        /\ req.chain = "upload"
        /\ dom' = uploadCatch(dom, message)
        /\ pendingFetches' = pendingFetches \ {req}
        /\ NoteAttempt(req.att, "error")
        /\ UNCHANGED <<currentDocumentId, alerts, pendingTimers, nReclassify,
                       resetSeen, dashboardVars>>
        /\ Observed([op |-> "uploadRejected", att |-> req.att, message |-> message])

\* .then(data => ...) of the process chain, with the .catch its throw reaches
\* processThen scheduling the result timer whether or not data.success holds
processThen_alwaysSchedules(d, timers, data, att) ==
    IF data.success
    THEN /\ dom' = updateProgress(d, 80, "Classifying document...")
         /\ pendingTimers' = timers \cup {[att |-> att, data |-> data]}
    ELSE /\ dom' = showError(d, "Processing failed: "
                                  \o GetOr(data, "error", "Processing failed"))
         /\ pendingTimers' = timers \cup {[att |-> att, data |-> data]}

\* processThen doing nothing when data.success is false
processThen_ignoresFailure(d, timers, data, att) ==
    IF data.success
    THEN /\ dom' = updateProgress(d, 80, "Classifying document...")
         /\ pendingTimers' = timers \cup {[att |-> att, data |-> data]}
    ELSE /\ dom' = d
         /\ pendingTimers' = timers

processThen(d, timers, data, att) ==
    IF data.success
    THEN /\ dom' = updateProgress(d, 80, "Classifying document...")
         /\ pendingTimers' = timers \cup {[att |-> att, data |-> data]}
    ELSE /\ dom' = showError(d, "Processing failed: "
                                  \o GetOr(data, "error", "Processing failed"))
         /\ pendingTimers' = timers

ProcessResolved ==
    \E req \in pendingFetches, data \in ProcessResponses :
        /\ req.chain = "process"
        /\ processThen(dom, pendingTimers, data, req.att)
        /\ pendingFetches' = pendingFetches \ {req}
        /\ NoteAttempt(req.att,
                IF data.success THEN "classified" ELSE "error")
        /\ UNCHANGED <<currentDocumentId, alerts, nReclassify, resetSeen, dashboardVars>>
        /\ Observed([op |-> "processResolved", att |-> req.att, data |-> data])

processCatch(d, message) == showError(d, "Processing failed: " \o message)

ProcessRejected ==
    \E req \in pendingFetches, message \in RejectionMessages :
        /\ req.chain = "process"
        /\ dom' = processCatch(dom, message)
        /\ pendingFetches' = pendingFetches \ {req}
        /\ NoteAttempt(req.att, "error")
        /\ UNCHANGED <<currentDocumentId, alerts, pendingTimers, nReclassify,
                       resetSeen, dashboardVars>>
        /\ Observed([op |-> "processRejected", att |-> req.att, message |-> message])

\* the setTimeout(..., 1000) callback of a successful process response
processTimeout(d, data) ==
    showResults(updateProgress(d, 100, "Processing complete!"), data)

ProcessTimerFired ==
    \E timer \in pendingTimers :
        /\ dom' = processTimeout(dom, timer.data)
        /\ pendingTimers' = pendingTimers \ {timer}
        /\ NoteAttempt(timer.att, "results")
        /\ UNCHANGED <<currentDocumentId, alerts, pendingFetches, nReclassify,
                       resetSeen, dashboardVars>>
        /\ Observed([op |-> "processTimerFired", att |-> timer.att, data |-> timer.data])

\* resetUploadForm keeping the stored document reference
resetUploadForm_keepsId(d) ==
    /\ dom' = [hideAllSections(d) EXCEPT !.fileInput = "",
                                         !.uploadSection = "block"]
    /\ UNCHANGED currentDocumentId

\* resetUploadForm leaving the chosen file in the input control
resetUploadForm_keepsFile(d) ==
    /\ dom' = [hideAllSections(d) EXCEPT !.uploadSection = "block"]
    /\ currentDocumentId' = NULL

resetUploadForm(d) ==
    /\ dom' = [hideAllSections(d) EXCEPT !.fileInput = "",
                                         !.uploadSection = "block"]
    /\ currentDocumentId' = NULL

\* click on processAnotherBtn or retryBtn; the handler itself has no guard,
\* so it is taken in any state
ResetClicked ==
    /\ resetUploadForm(dom)
    /\ resetSeen' = TRUE
    /\ UNCHANGED <<alerts, pendingFetches, pendingTimers, attempts, nReclassify, dashboardVars>>
    /\ Observed([op |-> "resetUploadForm"])

----------------------------------------------------------------------------
(* Manual reclassification *)

\* the select and the button can be operated only while Results is shown
ResultsControlsAvailable == Visible(dom.resultsSection)

\* change event of the manualClassification select
ManualClassificationChanged ==
    \E value \in ManualTypes :
        /\ ResultsControlsAvailable
        /\ value # dom.manualClassification
        /\ dom' = [dom EXCEPT !.manualClassification = value,
                              !.reclassifyBtn = IF Truthy(value)
                                                THEN "inline-block"
                                                ELSE "none"]
        /\ UNCHANGED <<currentDocumentId, alerts, pendingFetches, pendingTimers,
                       attempts, nReclassify, resetSeen, dashboardVars>>
        /\ Observed([op |-> "manualClassificationChanged", value |-> value])

\* handleManualReclassification without the test of currentDocumentId
handleManualReclassification_noIdGuard(d) ==
    LET newType == d.manualClassification
    IN  IF ~Truthy(newType)
        THEN UNCHANGED <<pendingFetches, nReclassify>>
        ELSE /\ pendingFetches' = pendingFetches \cup
                    {[chain |-> "reclassify",
                      url |-> "/reclassify/" \o currentDocumentId,
                      newType |-> newType, att |-> nReclassify + 1]}
             /\ nReclassify' = nReclassify + 1

handleManualReclassification(d) ==
    LET newType == d.manualClassification
    IN  IF ~Truthy(newType) \/ ~Truthy(currentDocumentId)
        THEN UNCHANGED <<pendingFetches, nReclassify>>
        ELSE /\ pendingFetches' = pendingFetches \cup
                    {[chain |-> "reclassify",
                      url |-> "/reclassify/" \o currentDocumentId,
                      newType |-> newType, att |-> nReclassify + 1]}
             /\ nReclassify' = nReclassify + 1

\* click on reclassifyBtn
ReclassifyClicked ==
    /\ ResultsControlsAvailable
    /\ Visible(dom.reclassifyBtn)
    /\ nReclassify < MaxReclassify
    /\ handleManualReclassification(dom)
    /\ UNCHANGED <<currentDocumentId, dom, alerts, pendingTimers, attempts,
                   resetSeen, dashboardVars>>
    /\ Observed([op |-> "handleManualReclassification"])

\* .then(data => ...) of the reclassify chain, with the .catch a throw reaches
\* reclassifyThen reporting a failure through showError, as the upload and
\* process chains do
reclassifyThen_showsError(d, banners, data) ==
    IF ~data.success
    THEN /\ dom' = showError(d, "Reclassification failed: "
                          \o GetOr(data, "error", "Reclassification failed"))
         /\ alerts' = banners
    ELSE /\ dom' = [d EXCEPT
                      !.documentType = data.document.document_type,
                      !.confidence = [badge |-> "success",
                                      text |-> "100% (Manual)"],
                      !.routedTo = data.routing.department,
                      !.reclassifyBtn = "none",
                      !.manualClassification = ""]
         /\ alerts' = showAlert(banners, "Document reclassified successfully!",
                                "success")

reclassifyThen(d, banners, data) ==
    IF ~data.success
    THEN /\ dom' = d
         /\ alerts' = showAlert(banners, "Reclassification failed: "
                          \o GetOr(data, "error", "Reclassification failed"),
                          "danger")
    ELSE /\ dom' = [d EXCEPT
                      !.documentType = data.document.document_type,
                      !.confidence = [badge |-> "success",
                                      text |-> "100% (Manual)"],
                      !.routedTo = data.routing.department,
                      !.reclassifyBtn = "none",
                      !.manualClassification = ""]
         /\ alerts' = showAlert(banners, "Document reclassified successfully!",
                                "success")

ReclassifyResolved ==
    \E req \in pendingFetches, data \in ReclassifyResponses :
        /\ req.chain = "reclassify"
        /\ reclassifyThen(dom, alerts, data)
        /\ pendingFetches' = pendingFetches \ {req}
        /\ UNCHANGED <<currentDocumentId, pendingTimers, attempts, nReclassify,
                       resetSeen, dashboardVars>>
        /\ Observed([op |-> "reclassifyResolved", data |-> data])

reclassifyCatch(banners, message) ==
    showAlert(banners, "Reclassification failed: " \o message, "danger")

ReclassifyRejected ==
    \E req \in pendingFetches, message \in RejectionMessages :
        /\ req.chain = "reclassify"
        /\ alerts' = reclassifyCatch(alerts, message)
        /\ pendingFetches' = pendingFetches \ {req}
        /\ UNCHANGED <<currentDocumentId, dom, pendingTimers, attempts,
                       nReclassify, resetSeen, dashboardVars>>
        /\ Observed([op |-> "reclassifyRejected", message |-> message])

\* the 5 s timer of showAlert, or the banner's close button
AlertDismissed ==
    \E i \in 1..Len(alerts) :
        /\ alerts' = SubSeq(alerts, 1, i - 1) \o SubSeq(alerts, i + 1, Len(alerts))
        /\ UNCHANGED <<currentDocumentId, dom, pendingFetches, pendingTimers,
                       attempts, nReclassify, resetSeen, dashboardVars>>
        /\ Observed([op |-> "alertDismissed"])

----------------------------------------------------------------------------
(* Analytics page: /api/stats, the type chart and the routing summary *)

\* document types the server counts; "Receipt" is outside routingMap
DocumentTypes ==
    {"Invoice", "Resume", "Contract", "Bank Statement", "Other", "Receipt"}

\* type_distribution objects, as their entries in Object.keys order
TypeDistributions ==
    LET Entries == {[type |-> t, count |-> c] :
                        t \in DocumentTypes, c \in {1, 2}}
        Seconds(e1) == {e \in Entries :
                            /\ e.type \in {"Other", "Receipt", "Resume"}
                            /\ e.type # e1.type
                            /\ e.count = 1}
    IN  {<< >>} \cup {<<e>> : e \in Entries}
                \cup UNION {{<<e1, e2>> : e2 \in Seconds(e1)} : e1 \in Entries}

RECURSIVE SumCounts(_)
SumCounts(typeDistribution) ==
    IF typeDistribution = << >> THEN 0
    ELSE Head(typeDistribution).count + SumCounts(Tail(typeDistribution))

\* bodies of GET /api/stats with a 2xx status
StatsResponses ==
    {[total_documents |-> SumCounts(td), completed_documents |-> SumCounts(td),
      processing_documents |-> 0, error_documents |-> 0,
      type_distribution |-> td] : td \in TypeDistributions}
    \cup {[error |-> "Database unavailable"]}

\* messages of the errors that reach the .catch of loadAnalytics: the
\* thrown `HTTP <status>` of a non-ok response, or a rejected fetch
StatsFailures == {"HTTP 500"} \cup RejectionMessages

\* value || 0 of a possibly missing count
CountOr0(stats, field) ==
    IF field \in DOMAIN stats /\ stats[field] # 0 THEN stats[field] ELSE 0

updateStatsCards(pg, stats) ==
    [pg EXCEPT !.totalDocs = CountOr0(stats, "total_documents"),
               !.completedDocs = CountOr0(stats, "completed_documents"),
               !.processingDocs = CountOr0(stats, "processing_documents"),
               !.errorDocs = CountOr0(stats, "error_documents")]

\* the reference a variable holds to the n-th constructed Chart
ChartRef(n) == "Chart#" \o ToString(n)

\* Chart.prototype.destroy on the instance handle refers to
destroy(instances, handle) ==
    [n \in DOMAIN instances |->
        IF ChartRef(n) = handle
        THEN [instances[n] EXCEPT !.destroyed = TRUE]
        ELSE instances[n]]

\* new Chart(ctx, {type: 'doughnut', data: {labels, datasets: [{data}]}})
NewChart(typeDistribution) ==
    [destroyed |-> FALSE,
     labels |-> [i \in DOMAIN typeDistribution |-> typeDistribution[i].type],
     data |-> [i \in DOMAIN typeDistribution |-> typeDistribution[i].count]]

\* updateTypeChart constructing the new chart without destroying the old
updateTypeChart_noDestroy(handle, instances, typeDistribution) ==
    IF ~page.typeChartCanvas
    THEN UNCHANGED <<typeChart, charts>>
    ELSE /\ charts' = Append(instances, NewChart(typeDistribution))
         /\ typeChart' = ChartRef(Len(instances) + 1)

updateTypeChart(handle, instances, typeDistribution) ==
    IF ~page.typeChartCanvas
    THEN UNCHANGED <<typeChart, charts>>
    ELSE /\ charts' = Append(IF Truthy(handle)
                             THEN destroy(instances, handle)
                             ELSE instances,
                             NewChart(typeDistribution))
         /\ typeChart' = ChartRef(Len(instances) + 1)

routingMap ==
    [t \in {"Invoice", "Resume", "Contract", "Bank Statement", "Other"} |->
        CASE t = "Invoice" -> "Accounting"
          [] t = "Resume" -> "Human Resources"
          [] t = "Contract" -> "Legal"
          [] t = "Bank Statement" -> "Finance"
          [] t = "Other" -> "General Office"]

\* updateRoutingSummary sending every type it does not know to Accounting
updateRoutingSummary_otherDefault(pg, typeDistribution) ==
    LET html == [i \in DOMAIN typeDistribution |->
                    [type |-> typeDistribution[i].type,
                     department |->
                        IF typeDistribution[i].type \in DOMAIN routingMap
                        THEN routingMap[typeDistribution[i].type]
                        ELSE "Accounting",
                     count |-> typeDistribution[i].count]]
    IN  [pg EXCEPT !.routingSummary =
            IF html # << >>
            THEN [placeholder |-> FALSE, rows |-> html]
            ELSE [placeholder |-> TRUE, rows |-> << >>]]

\* the rows are the html string built by the forEach; the placeholder is
\* the paragraph 'No documents processed yet'
updateRoutingSummary(pg, typeDistribution) ==
    LET html == [i \in DOMAIN typeDistribution |->
                    [type |-> typeDistribution[i].type,
                     department |->
                        IF typeDistribution[i].type \in DOMAIN routingMap
                        THEN routingMap[typeDistribution[i].type]
                        ELSE "General Office",
                     count |-> typeDistribution[i].count]]
    IN  [pg EXCEPT !.routingSummary =
            IF html # << >>
            THEN [placeholder |-> FALSE, rows |-> html]
            ELSE [placeholder |-> TRUE, rows |-> << >>]]

\* a loader called by the page: onload script or button of the markup
LoadAnalytics ==
    /\ nCalls < MaxCalls
    /\ nCalls' = nCalls + 1
    /\ pendingFetches' = pendingFetches \cup
            {[chain |-> "stats", url |-> "/api/stats", newType |-> "",
              att |-> nCalls + 1]}
    /\ UNCHANGED <<workflowVars, alerts, typeChart, charts, page>>
    /\ Observed([op |-> "loadAnalytics"])

\* .then(data => ...) of loadAnalytics; without type_distribution
\* Object.keys throws after the cards are written and the .catch only logs
AnalyticsResolved ==
    \E req \in pendingFetches, data \in StatsResponses :
        /\ req.chain = "stats"
        /\ IF "type_distribution" \in DOMAIN data
           THEN /\ updateTypeChart(typeChart, charts, data.type_distribution)
                /\ page' = updateRoutingSummary(updateStatsCards(page, data),
                                                data.type_distribution)
           ELSE /\ page' = updateStatsCards(page, data)
                /\ UNCHANGED <<typeChart, charts>>
        /\ pendingFetches' = pendingFetches \ {req}
        /\ UNCHANGED <<workflowVars, alerts, nCalls>>
        /\ Observed([op |-> "analyticsResolved", data |-> data])

\* .catch(error => console.error(...)) of loadAnalytics
AnalyticsRejected ==
    \E req \in pendingFetches, message \in StatsFailures :
        /\ req.chain = "stats"
        /\ pendingFetches' = pendingFetches \ {req}
        /\ UNCHANGED <<workflowVars, alerts, typeChart, charts, page, nCalls>>
        /\ Observed([op |-> "analyticsRejected", message |-> message])

----------------------------------------------------------------------------
(* Dashboard page: /api/dashboard_stats *)

\* parsed bodies of GET /api/dashboard_stats; the second is the JSON body
\* of a non-2xx answer, which the chain parses like any other
DashboardStatsResponses ==
    {[total_documents |-> 3, completed_documents |-> 2,
      processing_documents |-> 1, error_documents |-> 0],
     [error |-> "Internal Server Error"]}

LoadDashboardStats ==
    /\ nCalls < MaxCalls
    /\ nCalls' = nCalls + 1
    /\ pendingFetches' = pendingFetches \cup
            {[chain |-> "dashboardStats", url |-> "/api/dashboard_stats",
              newType |-> "", att |-> nCalls + 1]}
    /\ UNCHANGED <<workflowVars, alerts, typeChart, charts, page>>
    /\ Observed([op |-> "loadDashboardStats"])

\* .then(data => ...) of loadDashboardStats
dashboardStatsThen(pg, data) ==
    [pg EXCEPT !.totalDocs = CountOr0(data, "total_documents"),
               !.completedDocs = CountOr0(data, "completed_documents"),
               !.processingDocs = CountOr0(data, "processing_documents"),
               !.errorDocs = CountOr0(data, "error_documents")]

DashboardStatsResolved ==
    \E req \in pendingFetches, data \in DashboardStatsResponses :
        /\ req.chain = "dashboardStats"
        /\ page' = dashboardStatsThen(page, data)
        /\ pendingFetches' = pendingFetches \ {req}
        /\ UNCHANGED <<workflowVars, alerts, typeChart, charts, nCalls>>
        /\ Observed([op |-> "dashboardStatsResolved", data |-> data])

dashboardStatsCatch(banners, message) ==
    showAlert(banners, "Failed to load dashboard stats: " \o message, "danger")

DashboardStatsRejected ==
    \E req \in pendingFetches, message \in RejectionMessages :
        /\ req.chain = "dashboardStats"
        /\ alerts' = dashboardStatsCatch(alerts, message)
        /\ pendingFetches' = pendingFetches \ {req}
        /\ UNCHANGED <<workflowVars, typeChart, charts, page, nCalls>>
        /\ Observed([op |-> "dashboardStatsRejected", message |-> message])

----------------------------------------------------------------------------
(* Pipeline demo: /api/pipeline-demo *)

\* parsed bodies of GET /api/pipeline-demo; docType is kept as its words,
\* which the server joins with '_'
PipelineResponses ==
    {[success |-> TRUE,
      pipeline_stages |-> <<"OCR", "Classification", "Routing">>,
      pipeline_demo |-> <<[docType |-> <<"bank", "statement">>,
                           sample_text |-> "Account balance",
                           classification_result |->
                               [type |-> "Bank Statement", confidence |-> 920,
                                method |-> "keywords"]]>>],
     [success |-> TRUE],
     [success |-> FALSE, error |-> "Demo unavailable"],
     [success |-> FALSE]}

getConfidenceColor(confidence) ==
    IF confidence >= 80 THEN "success"
    ELSE IF confidence >= 60 THEN "warning"
    ELSE "danger"

\* docType.replace('_', ' '): only the first '_' becomes a space
RECURSIVE JoinWords(_, _)
JoinWords(words, separator) ==
    IF Len(words) = 0 THEN ""
    ELSE IF Len(words) = 1 THEN words[1]
    ELSE words[1] \o separator \o JoinWords(Tail(words), "_")

displayPipelineResults(pg, data) ==
    [pg EXCEPT
        !.pipelineStages =
            [i \in DOMAIN data.pipeline_stages |->
                [stage |-> data.pipeline_stages[i], badge |-> i]],
        !.sampleResults =
            [i \in DOMAIN data.pipeline_demo |->
                LET result == data.pipeline_demo[i]
                    confidence ==
                        RoundPercent(result.classification_result.confidence)
                IN  [title |-> JoinWords(result.docType, " "),
                     text |-> result.sample_text,
                     badge |-> getConfidenceColor(confidence),
                     type |-> result.classification_result.type,
                     confidence |-> ToString(confidence) \o "% confidence",
                     method |-> result.classification_result.method]]]

LoadPipelineDemo ==
    /\ nCalls < MaxCalls
    /\ nCalls' = nCalls + 1
    /\ page' = [page EXCEPT !.pipelineDemo = "none",
                            !.pipelineLoading = "block"]
    /\ pendingFetches' = pendingFetches \cup
            {[chain |-> "pipelineDemo", url |-> "/api/pipeline-demo",
              newType |-> "", att |-> nCalls + 1]}
    /\ UNCHANGED <<workflowVars, alerts, typeChart, charts>>
    /\ Observed([op |-> "loadPipelineDemo"])

\* .then(data => ...) of loadPipelineDemo with the .catch a throw reaches
\* and the .finally: a success body without pipeline_stages throws after
\* the stage list has been emptied
pipelineThen(pg, banners, data) ==
    IF data.success
    THEN IF "pipeline_stages" \in DOMAIN data
         THEN /\ page' = [displayPipelineResults(pg, data) EXCEPT
                            !.pipelineDemo = "block",
                            !.pipelineLoading = "none"]
              /\ alerts' = banners
         ELSE /\ page' = [pg EXCEPT !.pipelineStages = << >>,
                                    !.pipelineLoading = "none"]
              /\ alerts' = showAlert(banners, "Error running pipeline demo",
                                     "danger")
    ELSE /\ page' = [pg EXCEPT !.pipelineLoading = "none"]
         /\ alerts' = showAlert(banners,
                        "Error running pipeline demo: "
                            \o (IF "error" \in DOMAIN data THEN data.error
                                ELSE "undefined"),
                        "error")

PipelineResolved ==
    \E req \in pendingFetches, data \in PipelineResponses :
        /\ req.chain = "pipelineDemo"
        /\ pipelineThen(page, alerts, data)
        /\ pendingFetches' = pendingFetches \ {req}
        /\ UNCHANGED <<workflowVars, typeChart, charts, nCalls>>
        /\ Observed([op |-> "pipelineResolved", data |-> data])

PipelineRejected ==
    \E req \in pendingFetches, message \in RejectionMessages :
        /\ req.chain = "pipelineDemo"
        /\ alerts' = showAlert(alerts, "Error running pipeline demo", "danger")
        /\ page' = [page EXCEPT !.pipelineLoading = "none"]
        /\ pendingFetches' = pendingFetches \ {req}
        /\ UNCHANGED <<workflowVars, typeChart, charts, nCalls>>
        /\ Observed([op |-> "pipelineRejected", message |-> message])

----------------------------------------------------------------------------
(* Chat widget: keypress on #chat-input, /api/chatbot *)

\* e.key of the keys pressed in the input; the value is kept as its
\* characters
Keys == {"Enter", "a", " "}

\* what the user types into the input before pressing Enter, with every
\* prefix on the way
TypedValues ==
    {<< >>, <<"a">>, <<" ">>, <<" ", " ">>, <<" ", "a">>, <<"a", " ">>,
     <<" ", "a", " ">>, <<"a", " ", "a">>}

\* parsed bodies of POST /api/chatbot; the second carries no `response`
ChatResponses == {[response |-> "Hello"], [error |-> "No message provided"]}

\* String.prototype.trim: leading and trailing white space removed
RECURSIVE TrimStart(_)
TrimStart(value) ==
    IF value # << >> /\ Head(value) = " " THEN TrimStart(Tail(value))
    ELSE value

RECURSIVE TrimEnd(_)
TrimEnd(value) ==
    IF value # << >> /\ value[Len(value)] = " "
    THEN TrimEnd(SubSeq(value, 1, Len(value) - 1))
    ELSE value

trim(value) == TrimEnd(TrimStart(value))

\* the keypress listener posting the value as typed, without trim
chatKeypress_noTrim(pg, key) ==
    IF key = "Enter"
    THEN LET message == pg.chatInput
         IN  IF message # << >>
             THEN /\ nCalls < MaxPosts
                  /\ page' = [pg EXCEPT
                        !.chatMessages = Append(pg.chatMessages,
                                [who |-> "You", text |-> message]),
                        !.chatInput = << >>]
                  /\ pendingFetches' = pendingFetches \cup
                        {[chain |-> "chat", url |-> "/api/chatbot",
                          body |-> [message |-> message],
                          att |-> nCalls + 1]}
                  /\ nCalls' = nCalls + 1
             ELSE UNCHANGED <<page, pendingFetches, nCalls>>
    ELSE /\ Append(pg.chatInput, key) \in TypedValues
         /\ page' = [pg EXCEPT !.chatInput = Append(pg.chatInput, key)]
         /\ UNCHANGED <<pendingFetches, nCalls>>

\* the keypress listener; for a character key the listener does nothing
\* and the browser then adds the character to the value
chatKeypress(pg, key) ==
    IF key = "Enter"
    THEN LET message == trim(pg.chatInput)
         IN  IF message # << >>
             THEN /\ nCalls < MaxPosts
                  /\ page' = [pg EXCEPT
                        !.chatMessages = Append(pg.chatMessages,
                                [who |-> "You", text |-> message]),
                        !.chatInput = << >>]
                  /\ pendingFetches' = pendingFetches \cup
                        {[chain |-> "chat", url |-> "/api/chatbot",
                          body |-> [message |-> message],
                          att |-> nCalls + 1]}
                  /\ nCalls' = nCalls + 1
             ELSE UNCHANGED <<page, pendingFetches, nCalls>>
    ELSE /\ Append(pg.chatInput, key) \in TypedValues
         /\ page' = [pg EXCEPT !.chatInput = Append(pg.chatInput, key)]
         /\ UNCHANGED <<pendingFetches, nCalls>>

ChatKeypress ==
    \E key \in Keys :
        /\ chatKeypress(page, key)
        /\ UNCHANGED <<workflowVars, alerts, typeChart, charts>>
        /\ Observed([op |-> "keypress", key |-> key, value |-> page.chatInput])

\* .then(data => ...) of the chat chain; a missing response prints as
\* 'undefined'
chatThen(pg, data) ==
    [pg EXCEPT !.chatMessages = Append(pg.chatMessages,
        [who |-> "Bot",
         text |-> IF "response" \in DOMAIN data THEN data.response
                  ELSE "undefined"])]

ChatResolved ==
    \E req \in pendingFetches, data \in ChatResponses :
        /\ req.chain = "chat"
        /\ page' = chatThen(page, data)
        /\ pendingFetches' = pendingFetches \ {req}
        /\ UNCHANGED <<workflowVars, alerts, typeChart, charts, nCalls>>
        /\ Observed([op |-> "chatResolved", att |-> req.att, data |-> data])

chatCatch(pg) ==
    [pg EXCEPT !.chatMessages = Append(pg.chatMessages,
        [who |-> "Bot", text |-> "Error processing your message."])]

ChatRejected ==
    \E req \in pendingFetches :
        /\ req.chain = "chat"
        /\ page' = chatCatch(page)
        /\ pendingFetches' = pendingFetches \ {req}
        /\ UNCHANGED <<workflowVars, alerts, typeChart, charts, nCalls>>
        /\ Observed([op |-> "chatRejected", att |-> req.att])

----------------------------------------------------------------------------
(* Behaviours *)

\* the upload workflow alone
Next ==
    \/ HandleFileSelect
    \/ HandleDrop
    \/ UploadResolved
    \/ UploadRejected
    \/ ProcessResolved
    \/ ProcessRejected
    \/ ProcessTimerFired
    \/ ResetClicked

Spec == Init /\ [][Next]_vars

\* the upload workflow with manual reclassification
NextReclassify ==
    \/ HandleFileSelect
    \/ HandleDrop
    \/ UploadResolved
    \/ UploadRejected
    \/ ProcessResolved
    \/ ProcessRejected
    \/ ProcessTimerFired
    \/ ResetClicked
    \/ ManualClassificationChanged
    \/ ReclassifyClicked
    \/ ReclassifyResolved
    \/ ReclassifyRejected
    \/ AlertDismissed

SpecReclassify == InitReclassify /\ [][NextReclassify]_vars

\* the result display alone: the page one second before the results of a
\* processed document are shown, for every shape of the process response.
\* Confidences are in thousandths.
Classifications ==
    LET Types == {"Invoice", ""}
        Confidences == {0, 300, 590, 599, 600, 601, 650, 799, 800, 804, 850,
                        856, 994, 1000}
    IN  {[type |-> t, confidence |-> c] : t \in Types, c \in Confidences}
        \cup {[type |-> t] : t \in Types}
        \cup {[confidence |-> c] : c \in Confidences}

Routings == {[department |-> "Accounting"], [department |-> ""],
             [reason |-> "keyword match"]}

ResultResponses ==
    LET With(S, field, values) ==
            S \cup {r @@ (field :> v) : r \in S, v \in values}
    IN  With(With(With({[success |-> TRUE]},
                       "classification", Classifications),
                  "routing", Routings),
             "extracted_text", {"INVOICE #1"})

InitResults ==
    \E data \in ResultResponses :
        /\ currentDocumentId = DocumentIdOf(1)
        /\ dom = [InitialDom EXCEPT !.fileInput = "C:/fakepath/file",
                                    !.processingSection = "block",
                                    !.progressBar = 80,
                                    !.processingStatus = "Classifying document...",
                                    !.progressContainer = "block"]
        /\ alerts = << >>
        /\ pendingFetches = {}
        /\ pendingTimers = {[att |-> 1, data |-> data]}
        /\ attempts = [a \in {1} |->
                            [stage |-> "classified", afterReset |-> FALSE]]
        /\ nReclassify = 0
        /\ resetSeen = FALSE
        /\ lastEvent = [op |-> "processResolved", att |-> 1, data |-> data,
                        issued |-> {}]
        /\ typeChart = NULL
        /\ charts = << >>
        /\ page = InitialPage(TRUE)
        /\ nCalls = 0

NextResults == ProcessTimerFired

SpecResults == InitResults /\ [][NextResults]_vars

\* the upload workflow where every request is eventually answered and
\* every timer fires: fetch always settles, and the browser runs a
\* setTimeout callback once its delay is over
InitFair == InitWith(MaxFairAttempts)

SpecFair ==
    /\ InitFair
    /\ [][Next]_vars
    /\ WF_vars(UploadResolved \/ UploadRejected)
    /\ WF_vars(ProcessResolved \/ ProcessRejected)
    /\ WF_vars(ProcessTimerFired)

\* the chat widget alone; a fetch always settles, with a response or with
\* a network error, so a pending chat request is eventually answered
InitChat == InitOn(0, FALSE)

NextChat ==
    \/ ChatKeypress
    \/ ChatResolved
    \/ ChatRejected

SpecChat ==
    InitChat /\ [][NextChat]_vars /\ WF_vars(ChatResolved \/ ChatRejected)

\* the analytics and dashboard pages: no upload workflow, and the chart
\* canvas is there or not depending on the page
InitDashboard == \E canvas \in BOOLEAN : InitOn(0, canvas)

NextDashboard ==
    \/ LoadAnalytics
    \/ AnalyticsResolved
    \/ AnalyticsRejected
    \/ LoadDashboardStats
    \/ DashboardStatsResolved
    \/ DashboardStatsRejected
    \/ LoadPipelineDemo
    \/ PipelineResolved
    \/ PipelineRejected
    \/ AlertDismissed

SpecDashboard == InitDashboard /\ [][NextDashboard]_vars

----------------------------------------------------------------------------
(* Properties of file validation *)

FileEvents == {"handleFileSelect", "handleDrop"}

\* the handler that just ran was handed this file
Handled(file) ==
    /\ lastEvent.op \in FileEvents
    /\ Len(lastEvent.files) > 0
    /\ lastEvent.files[1] = file

\* of the processing, results and error panels, exactly this one is shown
OnlyPanel(d, panel) ==
    \A p \in {"processingSection", "resultsSection", "errorSection"} :
        d[p] = IF p = panel THEN "block" ELSE "none"

MimeTypesAccepted ==
    { "application/pdf",
      "application/vnd.openxmlformats-officedocument.wordprocessingml.document",
      "image/jpeg", "image/jpg", "image/png" }

SixteenMiB == 16 * 1024 * 1024

\* C1: a file whose MIME type is outside the allowed set makes handleFile
\* issue no request; the error panel is the one shown, with the
\* type-rejection message.
C1_WrongTypeNeverReachesServer ==
    \A file \in Files :
        (Handled(file) /\ file.type \notin MimeTypesAccepted) =>
            /\ lastEvent.issued = {}
            /\ OnlyPanel(dom, "errorSection")
            /\ dom.errorMessage =
                 "Invalid file type. Please upload PDF, DOCX, JPG, or PNG files."

\* a text/plain file was rejected while an earlier upload was still pending
C1_Witness ==
    /\ Handled([type |-> "text/plain", size |-> 1])
    /\ pendingFetches # {}
    /\ dom.errorSection = "block"

\* C2: a file of an allowed type larger than 16 MiB makes handleFile issue
\* no request and show the size-rejection message in the error panel; a
\* file of exactly 16 MiB is uploaded.
C2_OversizeNeverReachesServer ==
    \A file \in Files :
        (Handled(file) /\ file.type \in MimeTypesAccepted) =>
            /\ file.size > SixteenMiB =>
                  /\ lastEvent.issued = {}
                  /\ OnlyPanel(dom, "errorSection")
                  /\ dom.errorMessage = "File too large. Maximum size is 16MB."
            /\ file.size = SixteenMiB =>
                  /\ \E r \in lastEvent.issued : r.url = "/upload"
                  /\ OnlyPanel(dom, "processingSection")

\* an image/jpg of 16 MiB + 1 byte was rejected
C2_Witness ==
    /\ Handled([type |-> "image/jpg", size |-> SixteenMiB + 1])
    /\ dom.errorMessage = "File too large. Maximum size is 16MB."
    /\ dom.errorSection = "block"

----------------------------------------------------------------------------
(* Properties of the upload -> process hand-over *)

\* the upload response just handled reported success with identifier id
UploadSucceededWith(id) ==
    /\ lastEvent.op = "uploadResolved"
    /\ lastEvent.data.success
    /\ "document_id" \in DOMAIN lastEvent.data
    /\ lastEvent.data.document_id = id

DocumentIds == { DocumentIdOf(a) : a \in DOMAIN attempts }

\* C3: when an upload response arrives with success and document_id = X,
\* the process request it causes is POST /process/X, and currentDocumentId
\* is X when that request is issued.
C3_ProcessTargetsReturnedId ==
    \A id \in DocumentIds :
        UploadSucceededWith(id) =>
            /\ currentDocumentId = id
            /\ lastEvent.issued =
                 {[chain |-> "process", url |-> "/process/" \o id,
                   newType |-> "", att |-> lastEvent.att]}

\* the second upload's response arrived while the first document's process
\* request was still pending
C3_Witness ==
    /\ UploadSucceededWith(DocumentIdOf(2))
    /\ \E r \in pendingFetches :
          r.chain = "process" /\ r.url = "/process/" \o DocumentIdOf(1)
    /\ \E r \in pendingFetches :
          r.chain = "process" /\ r.url = "/process/" \o DocumentIdOf(2)

----------------------------------------------------------------------------
(* Properties of reset and of the visible section *)

ProcessRequests == {r \in pendingFetches : r.chain = "process"}

\* C4: resetting the form clears the stored document reference, and the
\* process request of an upload started after the reset carries the
\* identifier returned for that upload, never that of an earlier upload.
C4_ResetForgetsOldDocument ==
    /\ lastEvent.op = "resetUploadForm" => currentDocumentId = NULL
    /\ \A r \in ProcessRequests :
          attempts[r.att].afterReset =>
              /\ r.url = "/process/" \o DocumentIdOf(r.att)
              /\ \A old \in 1..(r.att - 1) :
                    r.url # "/process/" \o DocumentIdOf(old)

\* the first document reached Results, the form was reset, and the second
\* upload's process request is pending
C4_Witness ==
    /\ attempts[1].stage = "results"
    /\ \E r \in ProcessRequests : r.att = 2 /\ attempts[2].afterReset
    /\ currentDocumentId = DocumentIdOf(2)

Sections ==
    {"uploadSection", "processingSection", "resultsSection", "errorSection"}

\* C5: in every reachable state exactly one of the upload, processing,
\* results and error sections is visible.
C5_ExactlyOneSectionVisible ==
    Cardinality({sec \in Sections : Visible(dom[sec])}) = 1

\* C6: whatever the state and whatever is in flight, right after
\* resetUploadForm the processing, results and error sections are hidden,
\* the upload section is shown, currentDocumentId is null and the file
\* input is empty.
C6_ResetReturnsToIdle ==
    lastEvent.op = "resetUploadForm" =>
        /\ dom.processingSection = "none"
        /\ dom.resultsSection = "none"
        /\ dom.errorSection = "none"
        /\ dom.uploadSection = "block"
        /\ currentDocumentId = NULL
        /\ dom.fileInput = ""

\* reset ran with an upload request and a result timer still pending
C6_Witness ==
    /\ lastEvent.op = "resetUploadForm"
    /\ \E r \in pendingFetches : r.chain = "upload"
    /\ pendingTimers # {}

----------------------------------------------------------------------------
(* Properties of upload and process outcomes *)

\* the handler that runs in this step was handed a file that passes validation
AcceptedFileStep ==
    /\ lastEvent'.op \in FileEvents
    /\ Len(lastEvent'.files) > 0
    /\ lastEvent'.files[1].type \in MimeTypesAccepted
    /\ lastEvent'.files[1].size <= SixteenMiB

\* this step handles the failure of an upload: a rejected fetch or body, or
\* a parsed response with success false
UploadFailureStep ==
    \/ lastEvent'.op = "uploadRejected"
    \/ lastEvent'.op = "uploadResolved" /\ ~lastEvent'.data.success

\* the text after the prefix, as the claim gives it: the server's error,
\* else the chain's generic text
ServerOrGeneric(event, generic) ==
    IF event.op \in {"uploadResolved", "processResolved"}
       /\ "error" \in DOMAIN event.data /\ event.data.error # ""
    THEN event.data.error
    ELSE generic

\* the text after the prefix once rejections are told apart: a rejection
\* shows the message of the error it rejected with
ServerOrGenericOrRejection(event, generic) ==
    IF event.op \in {"uploadRejected", "processRejected"}
    THEN event.message
    ELSE ServerOrGeneric(event, generic)

C7_Step(Text(_, _)) ==
    /\ AcceptedFileStep =>
          /\ lastEvent'.issued \subseteq pendingFetches'
          /\ Cardinality(lastEvent'.issued) = 1
          /\ \A r \in lastEvent'.issued : r.chain = "upload" /\ r.url = "/upload"
          /\ OnlyPanel(dom', "processingSection")
    /\ UploadFailureStep =>
          /\ OnlyPanel(dom', "errorSection")
          /\ dom'.errorMessage =
                "Upload failed: " \o Text(lastEvent', "Upload failed")
          /\ lastEvent'.issued = {}
          /\ \A r \in pendingFetches' :
                ~(r.chain = "process" /\ r.att = lastEvent'.att)
          /\ currentDocumentId' = currentDocumentId

\* C7 as claimed: a valid file causes exactly one POST /upload and shows the
\* processing section; a failed upload (rejection, unparsable body, success
\* false) shows Error with 'Upload failed: ' and the server's error or the
\* generic 'Upload failed', issues no POST /process and leaves
\* currentDocumentId as it was.
C7_Original == [][C7_Step(ServerOrGeneric)]_vars

\* C7 as amended: the same, except that after a rejected promise or an
\* unparsable body the text following 'Upload failed: ' is the message of
\* the rejection error.
C7_UploadOutcome == [][C7_Step(ServerOrGenericOrRejection)]_vars

\* the second upload was rejected after the first had stored its identifier
C7_Witness ==
    /\ lastEvent.op = "uploadRejected"
    /\ lastEvent.att = 2
    /\ dom.errorMessage = "Upload failed: Failed to fetch"
    /\ currentDocumentId = DocumentIdOf(1)

\* this step handles the failure of a process request
ProcessFailureStep ==
    \/ lastEvent'.op = "processRejected"
    \/ lastEvent'.op = "processResolved" /\ ~lastEvent'.data.success

ResultTimers(timers, att) == {t \in timers : t.att = att}

C8_Step(Text(_, _)) ==
    /\ (lastEvent'.op = "processResolved" /\ lastEvent'.data.success) =>
          ResultTimers(pendingTimers', lastEvent'.att) # {}
    /\ lastEvent'.op = "processTimerFired" =>
          /\ attempts[lastEvent'.att].stage = "classified"
          /\ lastEvent'.data.success
          /\ OnlyPanel(dom', "resultsSection")
          /\ dom'.progressBar = 100
    /\ ProcessFailureStep =>
          /\ OnlyPanel(dom', "errorSection")
          /\ dom'.errorMessage =
                "Processing failed: " \o Text(lastEvent', "Processing failed")
          /\ ResultTimers(pendingTimers', lastEvent'.att) = {}
    /\ (dom.resultsSection = "none" /\ dom'.resultsSection # "none") =>
          lastEvent'.op = "processTimerFired"

\* C8 as claimed: a successful process response leads to Results, shown with
\* the progress at 100; a failed one (rejection or success false) shows
\* Error with 'Processing failed: ' and the server's error or the generic
\* 'Processing failed'; Results is never shown for an attempt whose process
\* request failed.
C8_Original == [][C8_Step(ServerOrGeneric)]_vars

\* C8 as amended: the same, except that after a rejected promise the text
\* following 'Processing failed: ' is the message of the rejection error.
C8_ProcessOutcome == [][C8_Step(ServerOrGenericOrRejection)]_vars

\* one attempt's process request was rejected while the other attempt's
\* result timer was pending
C8_Witness ==
    /\ lastEvent.op = "processRejected"
    /\ dom.errorMessage = "Processing failed: Failed to fetch"
    /\ pendingTimers # {}

----------------------------------------------------------------------------
(* Properties of manual reclassification *)

ReclassifyRequests(fetches) == {r \in fetches : r.chain = "reclassify"}

ReclassifyEvents ==
    {"handleManualReclassification", "reclassifyResolved", "reclassifyRejected"}

\* what the results panel displays, and the other texts of the workflow
DisplayedFields ==
    {"documentType", "confidence", "routedTo", "extractedText",
     "errorMessage", "processingStatus", "progressBar"}

\* C10: issuing a reclassify request and handling its response change neither
\* the visible section nor currentDocumentId; a success response changes,
\* of the displayed fields, only type, confidence (100%, Manual) and
\* routed-to; a failure leaves the displayed fields as they were.
C10_ReclassifyInPlace ==
    [][lastEvent'.op \in ReclassifyEvents =>
        /\ \A sec \in Sections : dom'[sec] = dom[sec]
        /\ currentDocumentId' = currentDocumentId
        /\ IF lastEvent'.op = "reclassifyResolved" /\ lastEvent'.data.success
           THEN /\ dom'.documentType = lastEvent'.data.document.document_type
                /\ dom'.confidence = [badge |-> "success",
                                      text |-> "100% (Manual)"]
                /\ dom'.routedTo = lastEvent'.data.routing.department
                /\ \A f \in DisplayedFields \ {"documentType", "confidence", "routedTo"} :
                      dom'[f] = dom[f]
           ELSE \A f \in DisplayedFields : dom'[f] = dom[f]
    ]_vars

\* a successful reclassification was just rendered in the results panel
C10_Witness ==
    /\ lastEvent.op = "reclassifyResolved"
    /\ lastEvent.data.success
    /\ dom.resultsSection = "block"
    /\ dom.documentType = "Resume"
    /\ dom.confidence.text = "100% (Manual)"

----------------------------------------------------------------------------
\* requests of the upload workflow that belong to attempt att
RequestsOf(fetches, att) ==
    {r \in fetches : r.chain \in {"upload", "process"} /\ r.att = att}

\* a step issues POST /upload only from a file event, for an attempt that
\* had none before, and POST /process only from that attempt's own upload
\* response
IssuedOnce ==
    \A r \in lastEvent'.issued :
        /\ r.chain = "upload" =>
               /\ lastEvent'.op \in FileEvents
               /\ lastEvent'.issued = {r}
               /\ attempts[r.att].stage = "unused"
               /\ attempts'[r.att].stage = "uploading"
        /\ r.chain = "process" =>
               /\ lastEvent'.op = "uploadResolved"
               /\ lastEvent'.att = r.att
               /\ lastEvent'.issued = {r}
               /\ attempts[r.att].stage = "uploading"
               /\ attempts'[r.att].stage = "processing"

\* C11: no retries.  Each accepted file causes at most one POST /upload
\* and at most one POST /process; once an attempt has failed no request of
\* that attempt is pending or issued again, and a request to /upload is
\* issued only by a file selection.
C11_NoRetries ==
    [][ /\ IssuedOnce
        /\ \A a \in DOMAIN attempts :
              /\ Cardinality(RequestsOf(pendingFetches', a)) <= 1
              /\ attempts'[a].stage = "error" =>
                     RequestsOf(pendingFetches', a) = {} ]_vars

\* a second accepted file is being uploaded after the first attempt failed
\* at its process request
C11_Witness ==
    /\ DOMAIN attempts = 1..MaxAttempts
    /\ attempts[1].stage = "error"
    /\ attempts[2].stage = "uploading"
    /\ RequestsOf(pendingFetches, 1) = {}
    /\ Cardinality(RequestsOf(pendingFetches, 2)) = 1
    /\ currentDocumentId = DocumentIdOf(1)

----------------------------------------------------------------------------
(* Properties of error reporting *)

\* the handler that just ran handled a failed request: a rejected promise
\* (for /api/stats also the thrown non-ok status), a body with success
\* false, or the error body of a non-2xx answer
FailureStep ==
    \/ lastEvent'.op \in {"uploadRejected", "processRejected",
                          "reclassifyRejected", "pipelineRejected",
                          "analyticsRejected", "dashboardStatsRejected"}
    \/ /\ lastEvent'.op \in {"uploadResolved", "processResolved",
                             "reclassifyResolved", "pipelineResolved"}
       /\ ~lastEvent'.data.success
    \/ /\ lastEvent'.op \in {"analyticsResolved", "dashboardStatsResolved"}
       /\ "error" \in DOMAIN lastEvent'.data

\* the handler made the error panel visible or put a new banner on the page
Surfaced ==
    \/ Visible(dom'.errorSection) /\ dom'.errorMessage # ""
    \/ /\ Len(alerts') = Len(alerts) + 1
       /\ Tail(alerts') = alerts

\* C12: every failed request of upload, process, reclassify, pipeline demo,
\* analytics stats and dashboard stats ends in a visible error panel or an
\* alert banner.
C12_AllErrorsSurface == [][FailureStep => Surfaced]_vars

----------------------------------------------------------------------------
(* Properties of the type chart *)

\* the Chart instances that have not been destroyed
LiveCharts == {n \in DOMAIN charts : ~charts[n].destroyed}

\* C13: with the chart canvas present, after any sequence of
\* updateTypeChart calls exactly one chart instance is live, every earlier
\* instance has been destroyed, and typeChart refers to the live one, which
\* shows the distribution of the latest call.
C13_OneLiveChart ==
    /\ charts = << >> => typeChart = NULL
    /\ charts # << >> =>
          /\ LiveCharts = {Len(charts)}
          /\ typeChart = ChartRef(Len(charts))
    /\ ( /\ page.typeChartCanvas
         /\ lastEvent.op = "analyticsResolved"
         /\ "type_distribution" \in DOMAIN lastEvent.data ) =>
          /\ charts # << >>
          /\ charts[Len(charts)].labels =
                [i \in DOMAIN lastEvent.data.type_distribution |->
                    lastEvent.data.type_distribution[i].type]

\* updateTypeChart has run twice: the first chart is destroyed, the second
\* is live and held by typeChart
C13_Witness ==
    /\ page.typeChartCanvas
    /\ Len(charts) = 2
    /\ charts[1].destroyed
    /\ ~charts[2].destroyed
    /\ typeChart = ChartRef(2)

----------------------------------------------------------------------------
(* Properties of the result display *)

\* the results of `data` have just been put on the page
ResultsShownFor(data) ==
    /\ lastEvent.op = "processTimerFired"
    /\ lastEvent.data = data

\* the confidence of a response, in thousandths, where it carries one
HasConfidence(data) ==
    /\ "classification" \in DOMAIN data
    /\ "confidence" \in DOMAIN data.classification

\* the badge shows percent% in the style `badge`
BadgeShows(percent, badge) ==
    dom.confidence = [badge |-> badge, text |-> ToString(percent) \o "%"]

\* C14: the confidence badge shows the confidence times 100 rounded to the
\* nearest integer, followed by '%', in the success style when the
\* confidence is at least 0.8, warning when it is at least 0.6 and below
\* 0.8, danger below 0.6; 0.85 gives '85%' success, 0.65 warning, 0.3
\* danger.
C14_ConfidenceBadge ==
    \A data \in ResultResponses :
        (ResultsShownFor(data) /\ HasConfidence(data)) =>
            LET c == data.classification.confidence
            IN  /\ \E percent \in 0..100 :
                      /\ 10 * percent - 5 <= c
                      /\ c < 10 * percent + 5
                      /\ dom.confidence.text = ToString(percent) \o "%"
                /\ dom.confidence.badge = "success" <=> c >= 800
                /\ dom.confidence.badge = "warning" <=> (600 <= c /\ c < 800)
                /\ dom.confidence.badge = "danger" <=> c < 600
                /\ c = 850 => BadgeShows(85, "success")
                /\ c = 650 => BadgeShows(65, "warning")
                /\ c = 300 => BadgeShows(30, "danger")

\* a confidence just below 0.8 is on the page: '80%' in the warning style
C14_Witness ==
    \E data \in ResultResponses :
        /\ ResultsShownFor(data)
        /\ HasConfidence(data)
        /\ data.classification.confidence = 799
        /\ BadgeShows(80, "warning")
        /\ Visible(dom.resultsSection)

\* C16: showResults falls back to 'Not classified' when the type is absent
\* or empty, to confidence 0 ('0%', danger style) when it is absent, to
\* 'Unassigned' when the department is absent and to '[No text extracted]'
\* when extracted_text is absent; where a value is given it is shown, and
\* in every case the results section becomes the visible panel.
C16_ResultFallbacks ==
    \A data \in ResultResponses :
        ResultsShownFor(data) =>
            LET hasType == /\ "classification" \in DOMAIN data
                           /\ "type" \in DOMAIN data.classification
                           /\ data.classification.type # ""
                hasDepartment == /\ "routing" \in DOMAIN data
                                 /\ "department" \in DOMAIN data.routing
                                 /\ data.routing.department # ""
                hasText == "extracted_text" \in DOMAIN data
            IN  /\ dom.documentType = IF hasType THEN data.classification.type
                                      ELSE "Not classified"
                /\ ~HasConfidence(data) => BadgeShows(0, "danger")
                /\ dom.routedTo = IF hasDepartment THEN data.routing.department
                                  ELSE "Unassigned"
                /\ dom.extractedText = IF hasText THEN data.extracted_text
                                       ELSE "[No text extracted]"
                /\ OnlyPanel(dom, "resultsSection")

\* a bare success response is on the page with all four fallbacks
C16_Witness ==
    /\ ResultsShownFor([success |-> TRUE])
    /\ dom.documentType = "Not classified"
    /\ BadgeShows(0, "danger")
    /\ dom.routedTo = "Unassigned"
    /\ dom.extractedText = "[No text extracted]"
    /\ Visible(dom.resultsSection)

----------------------------------------------------------------------------
(* Properties of the chat widget *)

ChatRequests(fetches) == {r \in fetches : r.chain = "chat"}

BotLines(messages) ==
    {i \in DOMAIN messages : messages[i].who = "Bot"}

\* message is value without its leading and trailing spaces
IsTrimmed(message, value) ==
    \E i \in 1..Len(value), j \in 1..Len(value) :
        /\ message = SubSeq(value, i, j)
        /\ value[i] # " "
        /\ value[j] # " "
        /\ \A k \in 1..Len(value) : (k < i \/ k > j) => value[k] = " "

\* a key press posts exactly when the key is Enter and the value holds a
\* character that is not a space; the step that posts has appended the
\* trimmed message as a You line and emptied the input
KeypressStep ==
    lastEvent'.op = "keypress" =>
        LET value == lastEvent'.value
            posts == /\ lastEvent'.key = "Enter"
                     /\ \E i \in 1..Len(value) : value[i] # " "
        IN  /\ (lastEvent'.issued # {}) <=> posts
            /\ posts =>
                 \E r \in lastEvent'.issued :
                    /\ lastEvent'.issued = {r}
                    /\ r.chain = "chat" /\ r.url = "/api/chatbot"
                    /\ IsTrimmed(r.body.message, value)
                    /\ page'.chatInput = << >>
                    /\ page'.chatMessages = Append(page.chatMessages,
                            [who |-> "You", text |-> r.body.message])
            /\ ~posts => page'.chatMessages = page.chatMessages

\* a settled request adds one Bot line: the reply, or the fixed error line
SettleStep ==
    /\ ( /\ lastEvent'.op = "chatResolved"
         /\ "response" \in DOMAIN lastEvent'.data ) =>
          page'.chatMessages = Append(page.chatMessages,
                [who |-> "Bot", text |-> lastEvent'.data.response])
    /\ lastEvent'.op = "chatRejected" =>
          page'.chatMessages = Append(page.chatMessages,
                [who |-> "Bot", text |-> "Error processing your message."])
    /\ lastEvent'.op \in {"chatResolved", "chatRejected"} =>
          /\ Len(page'.chatMessages) = Len(page.chatMessages) + 1
          /\ ChatRequests(pendingFetches') =
                ChatRequests(pendingFetches) \ {r \in pendingFetches :
                                                   r.att = lastEvent'.att}

----------------------------------------------------------------------------
(* Properties of the routing summary *)

\* the department the routing table names for a type
DepartmentOf(type) ==
    CASE type = "Invoice" -> "Accounting"
      [] type = "Resume" -> "Human Resources"
      [] type = "Contract" -> "Legal"
      [] type = "Bank Statement" -> "Finance"
      [] OTHER -> "General Office"

\* C17: updateRoutingSummary shows one row per type of the distribution,
\* with the type's count and its department: Accounting for Invoice, Human
\* Resources for Resume, Legal for Contract, Finance for Bank Statement,
\* General Office for Other and for every type outside the table.  The
\* placeholder 'No documents processed yet' is shown exactly when the
\* distribution is empty.
C17_RoutingSummary ==
    ( /\ lastEvent.op = "analyticsResolved"
      /\ "type_distribution" \in DOMAIN lastEvent.data ) =>
        LET distribution == lastEvent.data.type_distribution
            summary == page.routingSummary
        IN  /\ summary.placeholder <=> distribution = << >>
            /\ Len(summary.rows) = Len(distribution)
            /\ \A i \in DOMAIN distribution :
                  /\ summary.rows[i].type = distribution[i].type
                  /\ summary.rows[i].count = distribution[i].count
                  /\ summary.rows[i].department =
                        DepartmentOf(distribution[i].type)
            /\ \A i \in DOMAIN distribution :
                  Cardinality({j \in DOMAIN summary.rows :
                        summary.rows[j].type = distribution[i].type}) = 1

\* the summary of two invoices and one receipt: the receipt, which the
\* table does not list, goes to General Office
C17_Witness ==
    /\ lastEvent.op = "analyticsResolved"
    /\ ~page.routingSummary.placeholder
    /\ page.routingSummary.rows =
          <<[type |-> "Invoice", department |-> "Accounting", count |-> 2],
            [type |-> "Receipt", department |-> "General Office",
             count |-> 1]>>

----------------------------------------------------------------------------
(* Properties under interleaving of attempts, resets and late responses *)

\* C18: whenever the results section is visible, currentDocumentId is not
\* null and is the id of the document whose results are displayed; checked
\* at the moment the results are put on the page, when the displayed
\* document is the one of the attempt whose timer fired.
C18_ResultsHaveDocument ==
    Visible(dom.resultsSection) =>
        /\ Truthy(currentDocumentId)
        /\ lastEvent.op = "processTimerFired" =>
              currentDocumentId = DocumentIdOf(lastEvent.att)

\* the Idle state of the page: no panel shown, no document stored
Idle(d, documentId) ==
    /\ \A p \in {"processingSection", "resultsSection", "errorSection"} :
          ~Visible(d[p])
    /\ documentId = NULL

\* C19: after resetUploadForm the UI stays Idle (processing, results and
\* error hidden, currentDocumentId null) until the next file selection,
\* also when responses or timers of requests issued before the reset
\* complete afterwards.  A page that is Idle after a reset has seen no file
\* since, because every file event shows a panel.
C19_IdleUntilNextFile ==
    [][ ( /\ resetSeen
          /\ Idle(dom, currentDocumentId)
          /\ lastEvent'.op \notin FileEvents )
        => Idle(dom', currentDocumentId') ]_vars

----------------------------------------------------------------------------
(* Termination of an attempt *)

\* the handler that just ran made the outcome of attempt att visible: its
\* results, or an error of one of its two requests
OutcomeShown(att) ==
    /\ lastEvent.op \in {"uploadResolved", "uploadRejected", "processResolved",
                         "processRejected", "processTimerFired"}
    /\ lastEvent.att = att
    /\ \/ /\ lastEvent.op = "processTimerFired"
          /\ OnlyPanel(dom, "resultsSection")
       \/ /\ lastEvent.op # "processTimerFired"
          /\ OnlyPanel(dom, "errorSection")
          /\ dom.errorMessage # ""

\* C20: if every request is eventually answered and every timer fires,
\* each accepted file eventually leads to its results or an error being
\* made visible for that attempt.
C20_AttemptTerminates ==
    \A att \in 1..MaxFairAttempts :
        (attempts[att].stage = "uploading") ~> OutcomeShown(att)

\* the results of an accepted file have been shown although the form was
\* reset while the file was in flight
C20_Witness ==
    /\ OutcomeShown(MaxFairAttempts)
    /\ lastEvent.op = "processTimerFired"
    /\ attempts[MaxFairAttempts].stage = "results"
    /\ resetSeen
    /\ pendingFetches = {}
    /\ pendingTimers = {}

----------------------------------------------------------------------------
(* Properties of an upload answered without a document id *)

\* the handler that ran last received an upload response that reports
\* success and carries no document_id, or an empty one
NoDocumentIdEvent ==
    /\ lastEvent.op = "uploadResolved"
    /\ lastEvent.data.success
    /\ \/ "document_id" \notin DOMAIN lastEvent.data
       \/ lastEvent.data.document_id = ""

\* C21: when an upload response reports success without a document_id (or
\* with an empty one), no POST /process is issued, the error panel is shown
\* with 'No document ID provided', and currentDocumentId holds that falsy
\* value (undefined or ''); while currentDocumentId is falsy a click on the
\* reclassify button issues no request.
C21_NoDocumentId ==
    /\ NoDocumentIdEvent =>
          /\ lastEvent.issued = {}
          /\ \A r \in pendingFetches : r.att = lastEvent.att =>
                r.chain \notin {"upload", "process"}
          /\ \A timer \in pendingTimers : timer.att # lastEvent.att
          /\ OnlyPanel(dom, "errorSection")
          /\ dom.errorMessage = "No document ID provided"
          /\ currentDocumentId =
                IF "document_id" \in DOMAIN lastEvent.data
                THEN "" ELSE UNDEFINED
    /\ ( /\ lastEvent.op = "handleManualReclassification"
         /\ currentDocumentId \in {NULL, UNDEFINED, ""} ) =>
          lastEvent.issued = {}

\* the upload was answered with success and no document_id: the error
\* panel shows the message and currentDocumentId is undefined
C21_Witness ==
    /\ lastEvent.op = "uploadResolved"
    /\ lastEvent.data = [success |-> TRUE]
    /\ currentDocumentId = UNDEFINED
    /\ dom.errorMessage = "No document ID provided"
    /\ Visible(dom.errorSection)
    /\ pendingFetches = {}

====
